---------------------------- MODULE Spec2Model ----------------------------
(***************************************************************************)
(* A model of the Chip-8 interpreter core of src/src/cpu.rs: the Cpu       *)
(* struct (registers, memory, position_in_memory, stack, stack_pointer),   *)
(* the fetch-decode-execute loop of Cpu::run and one operator per opcode   *)
(* handler.  Register arithmetic is 8 bits wide, as in the source.         *)
(***************************************************************************)
EXTENDS Integers, Sequences, FiniteSets, TLC

VARIABLES
    registers,           \* Cpu.registers: [u8; 16]
    memory,              \* Cpu.memory: [u8; 4096], kept as its bytes that
                         \* are not 0 (address |-> byte); every other byte is 0
    position_in_memory,  \* Cpu.position_in_memory: usize
    stack,               \* Cpu.stack: [u16; 16]
    stack_pointer,       \* Cpu.stack_pointer: usize
    status,              \* where the caller of the Cpu stands: "idle", "running"
                         \* (inside run), "halted" (run returned) or the panic
                         \* that ended run
    last,                \* history: the engine state at the fetch of the most
                         \* recently executed instruction, and its opcode
    calls                \* history: the calls not yet returned from, each with
                         \* its address and the stack pointer it was executed at

vars == <<registers, memory, position_in_memory, stack, stack_pointer,
          status, last, calls>>

-----------------------------------------------------------------------------
(* Sizes fixed by the Cpu struct. *)

NumRegisters == 16
MemSize == 4096
StackSize == 16
FlagRegister == 15

(* Bounds of the model. *)

\* Register values loaded by the caller come from both ends of the u8 range:
\* 0..EdgeWidth and (255 - EdgeWidth)..255.
EdgeWidth == 2
\* The generated programs hold at most MaxProgLen instructions.
MaxProgLen == 3

Byte == 0..255
RegIndex == 0..(NumRegisters - 1)

-----------------------------------------------------------------------------
(* u8 arithmetic as rustc compiles it.  `+` and `-` on u8 panic on         *)
(* overflow when overflow checks are on (the dev profile) and wrap when    *)
(* they are off (the release profile); both outcomes are kept.  `<<` by 1  *)
(* never panics: only the shift amount is checked, the bits shifted out    *)
(* are dropped.                                                            *)

U8Add(a, b) ==
    IF a + b <= 255
    THEN {[value |-> a + b, panic |-> FALSE, wrapped |-> FALSE]}
    ELSE {[value |-> (a + b) % 256, panic |-> FALSE, wrapped |-> TRUE],
          [value |-> a, panic |-> TRUE, wrapped |-> FALSE]}

U8Sub(a, b) ==
    IF a >= b
    THEN {[value |-> a - b, panic |-> FALSE, wrapped |-> FALSE]}
    ELSE {[value |-> (a - b) % 256, panic |-> FALSE, wrapped |-> TRUE],
          [value |-> a, panic |-> TRUE, wrapped |-> FALSE]}

U8Shl1(a) == (a * 2) % 256

U8Shr1(a) == a \div 2

OrBit  == [p \in {0, 1}, q \in {0, 1} |-> IF p + q > 0 THEN 1 ELSE 0]
AndBit == [p \in {0, 1}, q \in {0, 1} |-> p * q]
XorBit == [p \in {0, 1}, q \in {0, 1} |-> (p + q) % 2]

RECURSIVE Bitwise(_, _, _, _)
Bitwise(f, a, b, n) ==
    IF n = 0 THEN 0
    ELSE f[a % 2, b % 2] + 2 * Bitwise(f, a \div 2, b \div 2, n - 1)

U8Or(a, b)  == Bitwise(OrBit, a, b, 8)
U8And(a, b) == Bitwise(AndBit, a, b, 8)
U8Xor(a, b) == Bitwise(XorBit, a, b, 8)

-----------------------------------------------------------------------------
(* The register handlers.  Each maps the register file to the set of its   *)
(* outcomes: the register file left behind, whether the handler panicked   *)
(* on an arithmetic overflow, and whether a u8 result wrapped.             *)

Done(regs) == {[registers |-> regs, panic |-> FALSE, wrapped |-> FALSE]}

\* `registers[x] = o.value` unless the arithmetic panicked before the store.
Store(regs, x, o) ==
    [registers |-> IF o.panic THEN regs ELSE [regs EXCEPT ![x] = o.value],
     panic |-> o.panic, wrapped |-> o.wrapped]

assign(regs, x, y) == Done([regs EXCEPT ![x] = regs[y]])

or_xy(regs, x, y) == Done([regs EXCEPT ![x] = U8Or(regs[x], regs[y])])

and_xy(regs, x, y) == Done([regs EXCEPT ![x] = U8And(regs[x], regs[y])])

\* xor_xy computing the inclusive or.
xor_xy_inclusive(regs, x, y) == Done([regs EXCEPT ![x] = U8Or(regs[x], regs[y])])

xor_xy(regs, x, y) == Done([regs EXCEPT ![x] = U8Xor(regs[x], regs[y])])

\* add_xy storing the truncated sum when the addition carries.
add_xy_store_on_carry(regs, x, y) ==
    IF regs[x] > 255 - regs[y]
    THEN Done([regs EXCEPT ![FlagRegister] = 1, ![x] = (regs[x] + regs[y]) % 256])
    ELSE LET r1 == [regs EXCEPT ![FlagRegister] = 0]
         IN  {Store(r1, x, o) : o \in U8Add(r1[x], r1[y])}

add_xy(regs, x, y) ==
    IF regs[x] > 255 - regs[y]
    THEN Done([regs EXCEPT ![FlagRegister] = 1])
    ELSE LET r1 == [regs EXCEPT ![FlagRegister] = 0]
         IN  {Store(r1, x, o) : o \in U8Add(r1[x], r1[y])}

\* sub_xy with the polarity of the flag inverted: 1 on borrow, 0 otherwise.
sub_xy_inverted_flag(regs, x, y) ==
    IF regs[x] < regs[y]
    THEN Done([regs EXCEPT ![FlagRegister] = 1])
    ELSE LET r1 == [regs EXCEPT ![FlagRegister] = 0]
         IN  {Store(r1, x, o) : o \in U8Sub(r1[x], r1[y])}

sub_xy(regs, x, y) ==
    IF regs[x] < regs[y]
    THEN Done([regs EXCEPT ![FlagRegister] = 0])
    ELSE LET r1 == [regs EXCEPT ![FlagRegister] = 1]
         IN  {Store(r1, x, o) : o \in U8Sub(r1[x], r1[y])}

shift_right_1(regs, x) ==
    LET r1 == [regs EXCEPT ![FlagRegister] = regs[x] % 2]
    IN  Done([r1 EXCEPT ![x] = U8Shr1(r1[x])])

\* set_sub_xy taking the borrow branch when VX >= VY instead of VX > VY.
set_sub_xy_borrow_on_equal(regs, x, y) ==
    IF regs[x] >= regs[y]
    THEN Done([regs EXCEPT ![FlagRegister] = 0])
    ELSE LET r1 == [regs EXCEPT ![FlagRegister] = 1]
         IN  {Store(r1, x, o) : o \in U8Sub(r1[y], r1[x])}

set_sub_xy(regs, x, y) ==
    IF regs[x] > regs[y]
    THEN Done([regs EXCEPT ![FlagRegister] = 0])
    ELSE LET r1 == [regs EXCEPT ![FlagRegister] = 1]
         IN  {Store(r1, x, o) : o \in U8Sub(r1[y], r1[x])}

\* shift_left_1 storing the most significant bit of VX in VF.
shift_left_1_msb(regs, x) ==
    LET r1 == [regs EXCEPT ![FlagRegister] = regs[x] \div 128]
    IN  Done([r1 EXCEPT ![x] = U8Shl1(r1[x])])

shift_left_1(regs, x) ==
    LET r1 == [regs EXCEPT ![FlagRegister] = regs[x] % 2]
    IN  Done([r1 EXCEPT ![x] = U8Shl1(r1[x])])

-----------------------------------------------------------------------------
(* The control-flow handlers.  Each maps the stack, the stack pointer and  *)
(* the program counter (already advanced past the instruction) to what it  *)
(* leaves behind, and the panic that ended it, if any.                     *)

\* call refusing the last slot: `sp >= stack.len() - 1` is an overflow.
call_last_slot_unused(stk, sp, pc, addr) ==
    IF sp >= StackSize - 1
    THEN [stack |-> stk, stack_pointer |-> sp, position_in_memory |-> pc,
          status |-> "StackOverflow"]
    ELSE [stack |-> [stk EXCEPT ![sp] = pc % 65536], stack_pointer |-> sp + 1,
          position_in_memory |-> addr, status |-> "running"]

\* call pushing with the stack pointer at the capacity as if a slot were there.
call_past_last_slot(stk, sp, pc, addr) ==
    IF sp > StackSize
    THEN [stack |-> stk, stack_pointer |-> sp, position_in_memory |-> pc,
          status |-> "StackOverflow"]
    ELSE IF sp >= StackSize
    THEN [stack |-> stk, stack_pointer |-> sp + 1,
          position_in_memory |-> addr, status |-> "running"]
    ELSE [stack |-> [stk EXCEPT ![sp] = pc % 65536], stack_pointer |-> sp + 1,
          position_in_memory |-> addr, status |-> "running"]

\* `stack[sp] = ...` with sp = stack.len() passes the `sp > stack.len()` test
\* and panics on the slice index instead.
call(stk, sp, pc, addr) ==
    IF sp > StackSize
    THEN [stack |-> stk, stack_pointer |-> sp, position_in_memory |-> pc,
          status |-> "StackOverflow"]
    ELSE IF sp >= StackSize
    THEN [stack |-> stk, stack_pointer |-> sp, position_in_memory |-> pc,
          status |-> "OutOfBounds"]
    ELSE [stack |-> [stk EXCEPT ![sp] = pc % 65536], stack_pointer |-> sp + 1,
          position_in_memory |-> addr, status |-> "running"]

\* ret reading the slot at the stack pointer before decrementing it.
ret_stale_slot(stk, sp, pc) ==
    IF sp = 0
    THEN [stack |-> stk, stack_pointer |-> sp, position_in_memory |-> pc,
          status |-> "StackUnderflow"]
    ELSE [stack |-> stk, stack_pointer |-> sp - 1,
          position_in_memory |-> stk[sp % StackSize], status |-> "running"]

\* ret on an empty stack reading slot 0 instead of panicking.
ret_saturating(stk, sp, pc) ==
    IF sp = 0
    THEN [stack |-> stk, stack_pointer |-> 0,
          position_in_memory |-> stk[0], status |-> "running"]
    ELSE [stack |-> stk, stack_pointer |-> sp - 1,
          position_in_memory |-> stk[sp - 1], status |-> "running"]

\* ret jumping back without popping.
ret_keep_sp(stk, sp, pc) ==
    IF sp = 0
    THEN [stack |-> stk, stack_pointer |-> sp, position_in_memory |-> pc,
          status |-> "StackUnderflow"]
    ELSE [stack |-> stk, stack_pointer |-> sp,
          position_in_memory |-> stk[sp - 1], status |-> "running"]

ret(stk, sp, pc) ==
    IF sp = 0
    THEN [stack |-> stk, stack_pointer |-> sp, position_in_memory |-> pc,
          status |-> "StackUnderflow"]
    ELSE [stack |-> stk, stack_pointer |-> sp - 1,
          position_in_memory |-> stk[sp - 1], status |-> "running"]

-----------------------------------------------------------------------------
(* Fetch and decode, Cpu::run lines 34-41. *)

\* A fetch that checks the index of the first byte only.
CanFetchFirstByte == position_in_memory < MemSize

CanFetch == position_in_memory + 1 < MemSize

\* memory[i], for an index i inside the array
MemoryAt(mem, i) == IF i \in DOMAIN mem THEN mem[i] ELSE 0

op_byte1 == MemoryAt(memory, position_in_memory)
op_byte2 == MemoryAt(memory, position_in_memory + 1)
opcode == op_byte1 * 256 + op_byte2

FieldX(op) == (op \div 256) % 16
FieldY(op) == (op \div 16) % 16
FieldMinor(op) == op % 16
FieldAddr(op) == op % 4096

IsCallOp(op) == op \in 8192..12287      \* 0x2000..=0x2FFF
IsAluOp(op) == op \in 32768..36863      \* 0x8000..=0x8FFF
RetOp == 238                            \* 0x00EE
\* The inner match without its 0xE arm.
ImplementedMinorsNoShiftLeft == {0, 1, 2, 3, 4, 5, 6, 7}
ImplementedMinors == {0, 1, 2, 3, 4, 5, 6, 7, 14}

\* The state at the fetch, kept as history for the properties.
Fetched(w) ==
    [opcode |-> opcode, registers |-> registers,
     position_in_memory |-> position_in_memory, stack |-> stack,
     stack_pointer |-> stack_pointer, wrapped |-> w]

-----------------------------------------------------------------------------
(* The initial state: Cpu::default(). *)

ZeroRegisters == [i \in RegIndex |-> 0]
ZeroMemory == [i \in {} |-> 0]
ZeroStack == [i \in 0..(StackSize - 1) |-> 0]

NothingFetched ==
    [opcode |-> -1, registers |-> ZeroRegisters,
     position_in_memory |-> 0, stack |-> ZeroStack, stack_pointer |-> 0,
     wrapped |-> FALSE]

\* The history after reset(): nothing fetched, and -2 for "has been reset".
AfterReset == [NothingFetched EXCEPT !.opcode = -2]

Init ==
    /\ registers = ZeroRegisters
    /\ memory = ZeroMemory
    /\ position_in_memory = 0
    /\ stack = ZeroStack
    /\ stack_pointer = 0
    /\ status = "idle"
    /\ last = NothingFetched
    /\ calls = <<>>

-----------------------------------------------------------------------------
(* What the caller of the Cpu writes before run: `registers` and `memory`  *)
(* are pub fields, set by main and by the tests.                           *)

\* The memory left by writing the instruction words `words`, a sequence of
\* <<address, word>>, into zeroed memory, most significant byte first.
WordAt(words, a) ==
    LET i == CHOOSE i \in 1..Len(words) :
                 /\ a \in {words[i][1], words[i][1] + 1}
                 /\ \A j \in (i + 1)..Len(words) :
                        a \notin {words[j][1], words[j][1] + 1}
    IN  IF a = words[i][1] THEN words[i][2] \div 256 ELSE words[i][2] % 256

Image(words) ==
    LET written == UNION {{words[i][1], words[i][1] + 1} : i \in 1..Len(words)}
    IN  [a \in {c \in written : WordAt(words, c) # 0} |-> WordAt(words, a)]

\* A program of consecutive instruction words from address 0.
Program(ws) == Image([i \in 1..Len(ws) |-> <<2 * (i - 1), ws[i]>>])

V0V1(a, b) == [ZeroRegisters EXCEPT ![0] = a, ![1] = b]

EdgeValues == (0..EdgeWidth) \cup ((255 - EdgeWidth)..255)
FlagValues == {0, 255}

\* One arithmetic/logic instruction 0x8XYN at address 0, with V[X] = a,
\* V[Y] = b and V[F] = f unless X or Y is F.
AluRegisters(x, y, a, b, f) ==
    [[[ZeroRegisters EXCEPT ![FlagRegister] = f] EXCEPT ![y] = b] EXCEPT ![x] = a]

AluProgram(x, y, n) == Program(<<32768 + 256 * x + 16 * y + n>>)

\* The loads of main (src/src/main.rs) and of the tests of src/src/cpu.rs.
CallAndRetProgram ==
    Image(<< <<0, 8448>>, <<2, 8448>>,       \* 0x2100, 0x2100
             <<256, 32788>>, <<258, 238>> >>)            \* 0x8014, 0x00EE

TestLoads ==
    {[registers |-> V0V1(5, 10),  memory |-> Program(<<32788>>)],  \* 0x8014
     [registers |-> V0V1(255, 1), memory |-> Program(<<32788>>)],
     [registers |-> V0V1(10, 6),  memory |-> Program(<<32789>>)],  \* 0x8015
     [registers |-> V0V1(0, 1),   memory |-> Program(<<32789>>)],
     [registers |-> V0V1(6, 10),  memory |-> Program(<<32784>>)],  \* 0x8010
     [registers |-> V0V1(12, 3),  memory |-> Program(<<32785>>)],  \* 0x8011
     [registers |-> V0V1(255, 15), memory |-> Program(<<32786>>)], \* 0x8012
     [registers |-> V0V1(17, 255), memory |-> Program(<<32787>>)], \* 0x8013
     [registers |-> V0V1(3, 0),   memory |-> Program(<<32790>>)],  \* 0x8016
     [registers |-> V0V1(6, 10),  memory |-> Program(<<32791>>)],  \* 0x8017
     [registers |-> V0V1(3, 0),   memory |-> Program(<<32782>>)],  \* 0x800E
     [registers |-> V0V1(5, 10),  memory |-> CallAndRetProgram]}

\* Every program of MaxProgLen instructions drawn from halt, return, add
\* V1 to V0 and the calls to each of its own instructions.
SmallAlphabet == {0, RetOp, 32788} \cup {8192 + 2 * k : k \in 0..(MaxProgLen - 1)}

\* n nested calls and n returns: main calls routine 1, routine i (at 16 * i)
\* calls routine i + 1 and returns, routine n returns.  n = StackSize + 1
\* is one call too many.
Chain(n) ==
    Image(<< <<0, 8192 + 16>> >> \o
          [i \in 1..(n - 1) |-> <<16 * i, 8192 + 16 * (i + 1)>>] \o
          [i \in 1..(n - 1) |-> <<16 * i + 2, RetOp>>] \o
          << <<16 * n, RetOp>> >>)

ChainImages == [n \in 1..(StackSize + 1) |-> Chain(n)]

\* Opcodes with no handler and calls to the last bytes of memory.
FaultOpcodes == {224, 4096, 32776, 32783, 61440, 8192 + 4095, 8192 + 4094}

\* 0x2FFE at 0 and 0x8000 at the last instruction slot: run leaves it with
\* the program counter past the end of memory.
OffTheEnd == Image(<< <<0, 8192 + 4094>>, <<4094, 32768>> >>)

\* 0x2005 at 0, 0x2008 at 5, 0x00EE at 8: a call to an odd address, a call
\* from there, and the return to the odd address 7, where run halts.
MisalignedProgram == Image(<< <<0, 8192 + 5>>, <<5, 8192 + 8>>, <<8, RetOp>> >>)

\* Every 16-bit instruction word.
Opcodes == 0..65535

-----------------------------------------------------------------------------
(* The caller: load a program and registers into a fresh Cpu and enter     *)
(* run; reset a Cpu whose run has returned.                                *)

Idle == status = "idle"

Enter(regs, mem) ==
    /\ registers' = regs
    /\ memory' = mem
    /\ status' = "running"
    /\ last' = NothingFetched
    /\ UNCHANGED <<position_in_memory, stack, stack_pointer, calls>>

LoadAlu ==
    /\ Idle
    /\ \E x \in RegIndex, y \in RegIndex, n \in ImplementedMinors,
          a \in EdgeValues, b \in EdgeValues, f \in FlagValues :
           Enter(AluRegisters(x, y, a, b, f), AluProgram(x, y, n))

LoadTest ==
    /\ Idle
    /\ \E l \in TestLoads : Enter(l.registers, l.memory)

LoadSmall ==
    /\ Idle
    /\ \E ws \in [1..MaxProgLen -> SmallAlphabet] :
           Enter(V0V1(5, 10), Program(ws))

LoadChain ==
    /\ Idle
    /\ \E n \in 1..(StackSize + 1) : Enter(ZeroRegisters, ChainImages[n])

LoadFault ==
    /\ Idle
    /\ \/ \E w \in FaultOpcodes : Enter(ZeroRegisters, Program(<<w>>))
       \/ Enter(ZeroRegisters, OffTheEnd)

LoadMisaligned ==
    /\ Idle
    /\ Enter(ZeroRegisters, MisalignedProgram)

\* One instruction, whatever its word, at address 0.
LoadOpcode ==
    /\ Idle
    /\ \E w \in Opcodes : Enter(V0V1(5, 10), Program(<<w>>))

\* reset forgetting the stack pointer.
reset_keeps_stack_pointer ==
    /\ status \in {"idle", "halted"}
    /\ registers' = ZeroRegisters
    /\ memory' = ZeroMemory
    /\ stack' = ZeroStack
    /\ position_in_memory' = 0
    /\ status' = "idle"
    /\ last' = AfterReset
    /\ calls' = <<>>
    /\ UNCHANGED stack_pointer

reset ==
    /\ status \in {"idle", "halted"}
    /\ registers' = ZeroRegisters
    /\ memory' = ZeroMemory
    /\ stack' = ZeroStack
    /\ position_in_memory' = 0
    /\ stack_pointer' = 0
    /\ status' = "idle"
    /\ last' = AfterReset
    /\ calls' = <<>>

-----------------------------------------------------------------------------
(* One iteration of the loop of Cpu::run, one action per arm of the match. *)

\* `self.memory[...]` panics when the index is past the end of memory.
FetchOutOfBounds ==
    /\ status = "running"
    /\ ~CanFetch
    /\ status' = "OutOfBounds"
    /\ last' = [last EXCEPT !.opcode = -1]     \* nothing was fetched
    /\ UNCHANGED <<registers, memory, position_in_memory, stack, stack_pointer,
                   calls>>

Decoded == status = "running" /\ CanFetch

\* A halt that clears memory on the way out.
Halt_clearing_memory ==
    /\ Decoded
    /\ opcode = 0
    /\ position_in_memory' = position_in_memory + 2
    /\ status' = "halted"
    /\ last' = Fetched(FALSE)
    /\ memory' = ZeroMemory
    /\ UNCHANGED <<registers, stack, stack_pointer, calls>>

\* A halt that resets registers and stack pointer on the way out.
Halt_implicit_reset ==
    /\ Decoded
    /\ opcode = 0
    /\ position_in_memory' = position_in_memory + 2
    /\ status' = "halted"
    /\ last' = Fetched(FALSE)
    /\ registers' = ZeroRegisters
    /\ stack_pointer' = 0
    /\ UNCHANGED <<memory, stack, calls>>

Halt ==
    /\ Decoded
    /\ opcode = 0
    /\ position_in_memory' = position_in_memory + 2
    /\ status' = "halted"
    /\ last' = Fetched(FALSE)
    /\ UNCHANGED <<registers, memory, stack, stack_pointer, calls>>

Ret ==
    /\ Decoded
    /\ opcode = RetOp
    /\ LET o == ret(stack, stack_pointer, position_in_memory + 2)
       IN  /\ stack' = o.stack
           /\ stack_pointer' = o.stack_pointer
           /\ position_in_memory' = o.position_in_memory
           /\ status' = o.status
           /\ calls' = IF o.status = "running" /\ calls # <<>>
                       THEN SubSeq(calls, 1, Len(calls) - 1) ELSE calls
    /\ last' = Fetched(FALSE)
    /\ UNCHANGED <<registers, memory>>

Call ==
    /\ Decoded
    /\ IsCallOp(opcode)
    /\ LET o == call(stack, stack_pointer, position_in_memory + 2, FieldAddr(opcode))
       IN  /\ stack' = o.stack
           /\ stack_pointer' = o.stack_pointer
           /\ position_in_memory' = o.position_in_memory
           /\ status' = o.status
           /\ calls' = IF o.status = "running"
                       THEN Append(calls, [site |-> position_in_memory,
                                           stack_pointer |-> stack_pointer])
                       ELSE calls
    /\ last' = Fetched(FALSE)
    /\ UNCHANGED <<registers, memory>>

\* An arm that moves the program counter by one byte.
Alu_one_byte(minor, outcomes) ==
    /\ Decoded
    /\ IsAluOp(opcode)
    /\ FieldMinor(opcode) = minor
    /\ \E o \in outcomes :
          /\ registers' = o.registers
          /\ status' = IF o.panic THEN "ArithmeticOverflow" ELSE "running"
          /\ last' = Fetched(o.wrapped)
    /\ position_in_memory' = position_in_memory + 1
    /\ UNCHANGED <<memory, stack, stack_pointer, calls>>

\* An arm of the inner match: the handler's outcome, after the program
\* counter has moved past the instruction.
Alu(minor, outcomes) ==
    /\ Decoded
    /\ IsAluOp(opcode)
    /\ FieldMinor(opcode) = minor
    /\ \E o \in outcomes :
          /\ registers' = o.registers
          /\ status' = IF o.panic THEN "ArithmeticOverflow" ELSE "running"
          /\ last' = Fetched(o.wrapped)
    /\ position_in_memory' = position_in_memory + 2
    /\ UNCHANGED <<memory, stack, stack_pointer, calls>>

X == FieldX(opcode)
Y == FieldY(opcode)

Assign == Alu(0, assign(registers, X, Y))
OrXY == Alu(1, or_xy(registers, X, Y))
AndXY == Alu(2, and_xy(registers, X, Y))
XorXY == Alu(3, xor_xy(registers, X, Y))
AddXY == Alu(4, add_xy(registers, X, Y))
SubXY == Alu(5, sub_xy(registers, X, Y))
ShiftRight1 == Alu(6, shift_right_1(registers, X))
SetSubXY == Alu(7, set_sub_xy(registers, X, Y))
ShiftLeft1 == Alu(14, shift_left_1(registers, X))

Unimplemented ==
    /\ Decoded
    /\ opcode # 0
    /\ opcode # RetOp
    /\ ~IsCallOp(opcode)
    /\ ~(IsAluOp(opcode) /\ FieldMinor(opcode) \in ImplementedMinors)
    /\ position_in_memory' = position_in_memory + 2
    /\ status' = "Unimplemented"
    /\ last' = Fetched(FALSE)
    /\ UNCHANGED <<registers, memory, stack, stack_pointer, calls>>

Next ==
    \/ LoadAlu
    \/ LoadTest
    \/ LoadSmall
    \/ LoadChain
    \/ LoadFault
    \/ LoadMisaligned
    \/ LoadOpcode
    \/ reset
    \/ FetchOutOfBounds
    \/ Halt
    \/ Ret
    \/ Call
    \/ Assign
    \/ OrXY
    \/ AndXY
    \/ XorXY
    \/ AddXY
    \/ SubXY
    \/ ShiftRight1
    \/ SetSubXY
    \/ ShiftLeft1
    \/ Unimplemented

\* The steps of the loop of run.
Step ==
    \/ FetchOutOfBounds
    \/ Halt
    \/ Ret
    \/ Call
    \/ Assign
    \/ OrXY
    \/ AndXY
    \/ XorXY
    \/ AddXY
    \/ SubXY
    \/ ShiftRight1
    \/ SetSubXY
    \/ ShiftLeft1
    \/ Unimplemented

Spec == Init /\ [][Next]_vars

\* The callers whose programs transfer control: the loops of calls and
\* returns, the chains, the tests of the crate and the faulting programs.
ControlFlowNext ==
    \/ LoadTest
    \/ LoadSmall
    \/ LoadChain
    \/ LoadFault
    \/ LoadMisaligned
    \/ reset
    \/ Step

\* run is sequential code: while it has not returned or panicked, its loop
\* takes the next step.
FairSpec == Init /\ [][ControlFlowNext]_vars /\ WF_vars(Step)

TypeOK ==
    /\ registers \in [RegIndex -> Byte]
    /\ position_in_memory \in 0..MemSize
    /\ stack_pointer \in 0..StackSize
    /\ stack \in [0..(StackSize - 1) -> 0..MemSize]
    /\ status \in {"idle", "running", "halted", "StackOverflow", "StackUnderflow",
                   "OutOfBounds", "Unimplemented", "ArithmeticOverflow"}

-----------------------------------------------------------------------------
(* Properties of the register handlers.  Each is stated on the state right *)
(* after the instruction: `last` holds the registers it started from.      *)

\* The last instruction executed was 0x8XYN with N = minor.
Executed(minor) == IsAluOp(last.opcode) /\ FieldMinor(last.opcode) = minor

LX == FieldX(last.opcode)
LY == FieldY(last.opcode)
\* V[X] and V[Y] before the instruction
VXBefore == last.registers[LX]
VYBefore == last.registers[LY]
GeneralPurpose == 0..(FlagRegister - 1)

Bit(v, i) == (v \div (2 ^ i)) % 2

\* C1: after 0x8XY4 with any X, Y in 0..15 and V[X] + V[Y] <= 255, the flag
\* register is 0 and V[X] is the sum.
C1_AddWithoutCarry ==
    (Executed(4) /\ VXBefore + VYBefore <= 255)
        => (registers[FlagRegister] = 0 /\ registers[LX] = VXBefore + VYBefore)

C5_SubNeverUnderflows ==
    (Executed(5) \/ Executed(7))
        => (status # "ArithmeticOverflow" /\ ~last.wrapped)

\* C6: after 0x8XY6 with any X in 0..15, the flag register is the least
\* significant bit V[X] had before and V[X] is halved.
C6_ShiftRight ==
    Executed(6)
        => /\ registers[FlagRegister] = VXBefore % 2
           /\ registers[LX] = VXBefore \div 2

C8_Expected(i) ==
    CASE Executed(0) -> Bit(VYBefore, i)
      [] Executed(1) -> IF Bit(VXBefore, i) = 1 \/ Bit(VYBefore, i) = 1 THEN 1 ELSE 0
      [] Executed(2) -> IF Bit(VXBefore, i) = 1 /\ Bit(VYBefore, i) = 1 THEN 1 ELSE 0
      [] Executed(3) -> IF Bit(VXBefore, i) # Bit(VYBefore, i) THEN 1 ELSE 0

C8_TransferAndBitwise ==
    ((Executed(0) \/ Executed(1) \/ Executed(2) \/ Executed(3))
        /\ LX \in GeneralPurpose)
        => /\ \A i \in 0..7 : Bit(registers[LX], i) = C8_Expected(i)
           /\ \A r \in RegIndex \ {LX} : registers[r] = last.registers[r]
           /\ stack = last.stack
           /\ stack_pointer = last.stack_pointer
           /\ position_in_memory = last.position_in_memory + 2
           /\ status = "running"

C8_Witness ==
    /\ Executed(3) /\ LX \in GeneralPurpose /\ LY = FlagRegister
    /\ VXBefore = 1 /\ VYBefore = 255
    /\ registers[LX] = 254 /\ registers[FlagRegister] = 255

-----------------------------------------------------------------------------
(* Properties of call and return.  `calls` holds, innermost last, the      *)
(* calls that have not been returned from.                                 *)

\* This step executes a return that does not underflow.
Returns == Decoded /\ opcode = RetOp /\ calls # <<>>

MatchingCall == calls[Len(calls)]

\* C9: a return resumes at the instruction after the call it matches, with
\* the stack pointer that call was executed at; a routine called from two
\* successive call sites runs once per call (the test's V0 = 5 + 10 + 10).
C9_CallReturnRoundTrip ==
    [][/\ Returns => /\ position_in_memory' = MatchingCall.site + 2
                     /\ stack_pointer' = MatchingCall.stack_pointer
                     /\ status' = "running"
       /\ (memory = CallAndRetProgram /\ status' = "halted")
              => (registers'[0] = 25 /\ position_in_memory' = 6)]_vars

\* The second return of the test program has resumed at address 4.
C9_Witness ==
    /\ memory = CallAndRetProgram
    /\ last.opcode = RetOp
    /\ last.stack_pointer = 1
    /\ position_in_memory = 4
    /\ stack_pointer = 0
    /\ registers[0] = 25

\* In Chain(n) the k-th nested call is at address 0 for k = 1 and in
\* routine k - 1, at 16 * (k - 1), for k > 1.
ChainCallSite(k) == IF k = 1 THEN 0 ELSE 16 * (k - 1)

\* C10: n nested calls and n returns, for n from 1 to the capacity 16: every
\* return resumes after the most recent unreturned call, and the run ends
\* after the outermost call with the stack empty.
C10_NestedCallsLifo ==
    \A n \in 1..StackSize :
        memory = ChainImages[n] =>
            /\ status \in {"running", "halted"}
            /\ (last.opcode = RetOp =>
                    /\ position_in_memory = ChainCallSite(last.stack_pointer) + 2
                    /\ stack_pointer = last.stack_pointer - 1)
            /\ (status = "halted" =>
                    /\ stack_pointer = 0
                    /\ last.position_in_memory = 2
                    /\ \A k \in 1..n : stack[k - 1] = ChainCallSite(k) + 2)

\* The run of 16 nested calls has ended: all 16 slots were used.
C10_Witness ==
    /\ memory = ChainImages[StackSize]
    /\ status = "halted"
    /\ stack_pointer = 0
    /\ stack[StackSize - 1] = ChainCallSite(StackSize) + 2

-----------------------------------------------------------------------------
(* Properties of the faults, of reset and of the run as a whole.           *)

\* The panics that end run.
Faults == {"StackOverflow", "StackUnderflow", "OutOfBounds", "Unimplemented",
           "ArithmeticOverflow"}

\* C11: a call executed with the stack pointer at the capacity is refused
\* by the call's own check and ends run with the StackOverflow fault, no
\* stack slot written, the stack pointer not incremented, no jump taken.
C11_CallOnFullStack ==
    (IsCallOp(last.opcode) /\ last.stack_pointer = StackSize)
        => /\ status = "StackOverflow"
           /\ stack = last.stack
           /\ stack_pointer = last.stack_pointer
           /\ position_in_memory = last.position_in_memory + 2

\* C12: a return fetched with the stack pointer at 0 ends run with the
\* StackUnderflow fault; beyond the fetch's advance by 2 it does not move
\* the program counter, and the stack pointer (0), the stack and the
\* registers are as they were; nothing runs after the fault.
C12_ReturnOnEmptyStack ==
    /\ (last.opcode = RetOp /\ last.stack_pointer = 0)
           => /\ status = "StackUnderflow"
              /\ position_in_memory = last.position_in_memory + 2
              /\ stack_pointer = 0
              /\ stack = last.stack
              /\ registers = last.registers
    /\ status = "StackUnderflow"
           => /\ last.opcode = RetOp /\ last.stack_pointer = 0
              /\ ~ENABLED Next

\* The program that is 0x00EE alone has faulted.
C12_Witness ==
    /\ status = "StackUnderflow"
    /\ memory = Program(<<RetOp>>)
    /\ position_in_memory = 2
    /\ stack_pointer = 0

\* The opcodes the dispatch of run has a handler for.
HasHandler(op) ==
    \/ op = 0
    \/ op = 238
    \/ op \div 4096 = 2
    \/ op \div 4096 = 8 /\ (op % 16 <= 7 \/ op % 16 = 14)

\* C13: every opcode without a handler ends run with the Unimplemented
\* fault, which no other cause raises (an out-of-bounds access raises
\* another one), and leaves registers, stack and stack pointer unchanged.
C13_UnimplementedOpcode ==
    /\ (last.opcode \in Opcodes /\ ~HasHandler(last.opcode))
           => /\ status = "Unimplemented"
              /\ registers = last.registers
              /\ stack = last.stack
              /\ stack_pointer = last.stack_pointer
    /\ status = "Unimplemented"
           => /\ last.opcode \in Opcodes /\ ~HasHandler(last.opcode)
              /\ ~ENABLED Next

\* 0x8XYF, in the arithmetic family, has faulted with V0 and V1 kept.
C13_Witness ==
    /\ status = "Unimplemented"
    /\ last.opcode = 32768 + 15
    /\ registers = V0V1(5, 10)

\* C14: reset() leaves exactly the default state, from a halted run (with
\* calls open or not, whatever the memory) and from a reset Cpu alike, and
\* the run that follows starts fetching at address 0.
C14_ResetIsDefault ==
    /\ status = "idle"
           => /\ registers = ZeroRegisters
              /\ memory = ZeroMemory
              /\ stack = ZeroStack
              /\ position_in_memory = 0
              /\ stack_pointer = 0
    /\ (status = "running" /\ last.opcode = -1)
           => (position_in_memory = 0 /\ stack_pointer = 0)

\* reset() has been called.
C14_Witness ==
    /\ status = "idle"
    /\ last.opcode = -2
    /\ memory = ZeroMemory
    /\ position_in_memory = 0

\* C15: the stack pointer is in 0..16 in every state, faulted ones too, and
\* the slot a call writes or a return reads has an index in 0..15.
C15_StackPointerInRange ==
    /\ stack_pointer \in 0..StackSize
    /\ DOMAIN stack = 0..(StackSize - 1)
    /\ (IsCallOp(last.opcode) /\ status = "running")
           => /\ last.stack_pointer \in 0..(StackSize - 1)
              /\ \A i \in 0..(StackSize - 1) :
                     i # last.stack_pointer => stack[i] = last.stack[i]
    /\ (last.opcode = RetOp /\ status = "running")
           => (last.stack_pointer - 1 \in 0..(StackSize - 1) /\ stack = last.stack)

\* A call has faulted with the stack full.
C15_Witness ==
    /\ stack_pointer = StackSize
    /\ IsCallOp(last.opcode)
    /\ status \in Faults

\* C16, as claimed: the program counter is even in every state.
C16_AlwaysAligned == position_in_memory % 2 = 0

\* The program counter and the saved return addresses are even.
Aligned ==
    /\ position_in_memory % 2 = 0
    /\ \A i \in 0..(stack_pointer - 1) : stack[i] % 2 = 0

OddCall == Decoded /\ IsCallOp(opcode) /\ FieldAddr(opcode) % 2 = 1

\* C16, amended: every step but a call to an odd address keeps the program
\* counter and the saved return addresses even; a call to an odd address
\* that is taken leaves the program counter odd.
C16_AlignedUnlessOddCall ==
    [][/\ (Aligned /\ ~OddCall) => Aligned'
       /\ (OddCall /\ status' = "running") => position_in_memory' % 2 = 1]_vars

\* The return to the odd address 7 of MisalignedProgram.
C16_Witness ==
    /\ memory = MisalignedProgram
    /\ last.opcode = RetOp
    /\ position_in_memory = 7
    /\ status = "running"

\* C17: a fetch with p + 1 >= 4096 ends run with the out-of-bounds fault
\* before anything is decoded: the program counter stays (it does not wrap
\* to 0), registers, stack and stack pointer are unchanged.
C17_FetchOutOfBounds ==
    [][(status = "running" /\ position_in_memory + 1 >= 4096)
          => /\ status' = "OutOfBounds"
             /\ position_in_memory' = position_in_memory
             /\ registers' = registers
             /\ stack' = stack
             /\ stack_pointer' = stack_pointer
             /\ last'.opcode = -1]_vars

\* Run has gone off the end of memory by straight-line execution.
C17_Witness ==
    /\ status = "OutOfBounds"
    /\ last.opcode = -1
    /\ position_in_memory = 4096
    /\ memory = OffTheEnd

\* C18: no step of run, faulting or not, changes a byte of memory.
C18_MemoryReadOnly ==
    [][status = "running" => memory' = memory]_vars

\* test_call_and_ret has run to its halt with its program still in memory.
C18_Witness ==
    /\ status = "halted"
    /\ memory = CallAndRetProgram
    /\ stack[0] = 4

\* C19, as claimed: the halt step changes neither registers, stack, stack
\* pointer nor program counter.
C19_HaltChangesNothing ==
    status = "halted"
        => /\ registers = last.registers
           /\ stack = last.stack
           /\ stack_pointer = last.stack_pointer
           /\ position_in_memory = last.position_in_memory

\* C19, amended: the halt step leaves registers, stack and stack pointer as
\* the last instruction left them and resets nothing; the program counter
\* has moved past the halt opcode, by 2.
C19_HaltKeepsState ==
    status = "halted"
        => /\ last.opcode = 0
           /\ registers = last.registers
           /\ stack = last.stack
           /\ stack_pointer = last.stack_pointer
           /\ position_in_memory = last.position_in_memory + 2

\* Run has halted inside a routine, with V0 = 15 from the add before.
C19_Witness ==
    /\ status = "halted"
    /\ stack_pointer = 1
    /\ registers[0] = 15
    /\ position_in_memory > 2

=============================================================================
